---- MODULE Spec2Model ----
(***************************************************************************)
(* Model of run_compiler_battle.py: the compile / run / extract / evaluate *)
(* / aggregate pipeline of main() and the pure functions it calls.         *)
(*                                                                         *)
(* Text is a sequence of one-character strings, so that the regular        *)
(* expressions of run_benchmark and the float()/int() conversions are      *)
(* computed on characters.  A float is an exact decimal [n, d] with the    *)
(* value n/d (d a power of ten).                                           *)
(***************************************************************************)
EXTENDS Integers, Sequences, FiniteSets, TLC

(***************************************************************************)
(* Bounds of the model.                                                    *)
(***************************************************************************)
\* longest workload output, in lines, that the extraction is applied to
MaxLines == 2
\* largest --runs value
MaxRuns == 2

(***************************************************************************)
(* Characters and text.                                                    *)
(***************************************************************************)
Digit == {"0", "1", "2", "3", "4", "5", "6", "7", "8", "9"}
DigitDot == Digit \cup {"."}
Space == {" ", "\t", "\n"}

DigitVal(c) ==
    CASE c = "0" -> 0 [] c = "1" -> 1 [] c = "2" -> 2 [] c = "3" -> 3
      [] c = "4" -> 4 [] c = "5" -> 5 [] c = "6" -> 6 [] c = "7" -> 7
      [] c = "8" -> 8 [] c = "9" -> 9

NL == <<"\n">>
LitBalance == <<"B", "a", "l", "a", "n", "c", "e", ":">>
LitHotspot == <<"H", "o", "t", "s", "p", "o", "t", ":">>
LitSuspicious == <<"S", "u", "s", "p", "i", "c", "i", "o", "u", "s", ":">>
LitBlocked == <<"B", "l", "o", "c", "k", "e", "d", ":">>
LitYES == <<"Y", "E", "S">>
LitNo == <<"N", "o">>

\* whether the literal lit occurs in s at position i
IsAt(s, i, lit) ==
    /\ i + Len(lit) - 1 <= Len(s)
    /\ \A k \in 1..Len(lit) : s[i + k - 1] = lit[k]

\* first position >= i of s whose character is outside cls (Len(s)+1 if none):
\* the end of a greedy cls+ or cls* starting at i
RECURSIVE RunEnd(_, _, _)
RunEnd(s, i, cls) ==
    IF i > Len(s) \/ s[i] \notin cls THEN i ELSE RunEnd(s, i + 1, cls)

NoMatch == [ok |-> FALSE, grp |-> <<>>, end |-> 0]

\* r"Balance:\s+([\d.]+)%" tried at position i
MatchBalance(s, i) ==
    LET a == i + Len(LitBalance)
        b == RunEnd(s, a, Space)
        c == RunEnd(s, b, DigitDot)
    IN  IF IsAt(s, i, LitBalance) /\ b > a /\ c > b /\ c <= Len(s) /\ s[c] = "%"
        THEN [ok |-> TRUE, grp |-> SubSeq(s, b, c - 1), end |-> c + 1]
        ELSE NoMatch

\* r"Hotspot:\s+(YES|No)" tried at position i
MatchHotspot(s, i) ==
    LET a == i + Len(LitHotspot)
        b == RunEnd(s, a, Space)
    IN  IF IsAt(s, i, LitHotspot) /\ b > a /\ IsAt(s, b, LitYES)
        THEN [ok |-> TRUE, grp |-> LitYES, end |-> b + Len(LitYES)]
        ELSE IF IsAt(s, i, LitHotspot) /\ b > a /\ IsAt(s, b, LitNo)
        THEN [ok |-> TRUE, grp |-> LitNo, end |-> b + Len(LitNo)]
        ELSE NoMatch

\* r"<label>\s+(\d+)" tried at position i
MatchCount(label, s, i) ==
    LET a == i + Len(label)
        b == RunEnd(s, a, Space)
        c == RunEnd(s, b, Digit)
    IN  IF IsAt(s, i, label) /\ b > a /\ c > b
        THEN [ok |-> TRUE, grp |-> SubSeq(s, b, c - 1), end |-> c]
        ELSE NoMatch

MatchAt(pat, s, i) ==
    CASE pat = "Balance" -> MatchBalance(s, i)
      [] pat = "Hotspot" -> MatchHotspot(s, i)
      [] pat = "Suspicious" -> MatchCount(LitSuspicious, s, i)
      [] pat = "Blocked" -> MatchCount(LitBlocked, s, i)

\* re.findall(pat, s): the groups of the non-overlapping matches, left to right
RECURSIVE FindAllFrom(_, _, _)
FindAllFrom(pat, s, i) ==
    IF i > Len(s) THEN <<>>
    ELSE LET m == MatchAt(pat, s, i)
         IN  IF m.ok THEN <<m.grp>> \o FindAllFrom(pat, s, m.end)
             ELSE FindAllFrom(pat, s, i + 1)

FindAll(pat, s) == FindAllFrom(pat, s, 1)

(***************************************************************************)
(* int() and float() on the matched text.                                  *)
(***************************************************************************)
RECURSIVE ParseInt(_)
ParseInt(t) ==
    IF t = <<>> THEN 0
    ELSE 10 * ParseInt(SubSeq(t, 1, Len(t) - 1)) + DigitVal(t[Len(t)])

RECURSIVE Pow10(_)
Pow10(k) == IF k = 0 THEN 1 ELSE 10 * Pow10(k - 1)

DotCount(t) == Cardinality({k \in 1..Len(t) : t[k] = "."})

\* float(t) raises ValueError unless t has at least one digit and at most one dot
FloatValid(t) == DotCount(t) <= 1 /\ Len(t) > DotCount(t)

\* faulty variant of ParseFloat: the decimal point is dropped, "73.2" reads as 732
ParseFloat_no_point(t) ==
    [n |-> ParseInt(SelectSeq(t, LAMBDA c : c # ".")), d |-> 1]

\* float(t) for a valid t over DigitDot: the digits without the dot, over
\* ten to the number of digits after the dot
ParseFloat(t) ==
    LET dots == {k \in 1..Len(t) : t[k] = "."}
        p == IF dots = {} THEN Len(t) + 1 ELSE CHOOSE k \in dots : TRUE
        digits == SubSeq(t, 1, p - 1) \o SubSeq(t, p + 1, Len(t))
    IN  [n |-> ParseInt(digits), d |-> Pow10(Len(t) - p + (IF dots = {} THEN 1 ELSE 0))]

FloatOf(k) == [n |-> k, d |-> 1]
FloatLT(x, y) == x.n * y.d < y.n * x.d
FloatLE(x, y) == x.n * y.d <= y.n * x.d
FloatEq(x, y) == x.n * y.d = y.n * x.d
FloatGE(x, k) == x.n >= k * x.d

(***************************************************************************)
(* COMPILER_CONFIGS: the registry, in its insertion order.  Only the       *)
(* fields the control flow reads are kept (name, executable); flags and    *)
(* description are only printed or passed through to the compiler.         *)
(***************************************************************************)
ConfigKeys == <<"gcc-O3", "gcc-O2", "gcc-O3-no-licm", "gcc-O3-barrier",
                "icpx", "icx", "clang">>

KnownKeys == {ConfigKeys[k] : k \in 1..Len(ConfigKeys)}

COMPILER_CONFIGS ==
    [key \in KnownKeys |->
        CASE key = "gcc-O3" -> [name |-> "GCC -O3", executable |-> "g++"]
          [] key = "gcc-O2" -> [name |-> "GCC -O2", executable |-> "g++"]
          [] key = "gcc-O3-no-licm" -> [name |-> "GCC -O3 (no LICM)", executable |-> "g++"]
          [] key = "gcc-O3-barrier" -> [name |-> "GCC -O3 + Barrier Fix", executable |-> "g++"]
          [] key = "icpx" -> [name |-> "Intel ICX", executable |-> "icpx"]
          [] key = "icx" -> [name |-> "Intel ICX (legacy)", executable |-> "icx"]
          [] key = "clang" -> [name |-> "Clang -O3", executable |-> "clang++"]]

\* the elements of seq that satisfy membership in set, in seq's order
RECURSIVE FilterIn(_, _)
FilterIn(seq, set) ==
    IF seq = <<>> THEN <<>>
    ELSE (IF Head(seq) \in set THEN <<Head(seq)>> ELSE <<>>) \o FilterIn(Tail(seq), set)

\* find_available_compilers() on a host whose search path resolves the
\* executables in `path`: the keys whose executable shutil.which finds
find_available_compilers(path) ==
    FilterIn(ConfigKeys, {key \in KnownKeys : COMPILER_CONFIGS[key].executable \in path})

(***************************************************************************)
(* compile_benchmark.  `proc` is what subprocess.run did: it returned      *)
(* (kind "exit", with returncode and stderr) or raised TimeoutExpired,     *)
(* FileNotFoundError or another exception.  A message is a sequence of its *)
(* parts; None, the absence of a message, is the empty sequence.           *)
(***************************************************************************)
None == <<>>

compile_benchmark(config, proc) ==
    CASE proc.kind = "exit" ->
            IF proc.returncode # 0
            THEN <<FALSE, <<"Compilation failed:", proc.stderr>>>>
            ELSE <<TRUE, <<"OK">>>>
      [] proc.kind = "TimeoutExpired" -> <<FALSE, <<"Compilation timeout">>>>
      [] proc.kind = "FileNotFoundError" ->
            <<FALSE, <<"Compiler not found:", config.executable>>>>
      [] OTHER -> <<FALSE, <<proc.message>>>>

(***************************************************************************)
(* run_benchmark.  `proc` is what subprocess.run did with the binary: it   *)
(* returned (kind "exit": returncode, which is never read, stdout, stderr, *)
(* and the elapsed ms measured around the call), or                        *)
(* raised TimeoutExpired (stdout/stderr hold what the child had printed    *)
(* when it was killed) or another exception.                               *)
(***************************************************************************)
BenchResult(compiler, balance_score, hotspot_detected, suspicious_patterns, blocked_redirects, execution_time_ms, raw_output, success, error) ==
    [compiler |-> compiler, balance_score |-> balance_score,
     hotspot_detected |-> hotspot_detected,
     suspicious_patterns |-> suspicious_patterns,
     blocked_redirects |-> blocked_redirects,
     execution_time_ms |-> execution_time_ms, raw_output |-> raw_output,
     success |-> success, error |-> error]

\* min() over a non-empty list of floats: the first smallest element
RECURSIVE MinFloat(_)
MinFloat(fs) ==
    IF Len(fs) = 1 THEN fs[1]
    ELSE LET m == MinFloat(SubSeq(fs, 1, Len(fs) - 1))
         IN  IF FloatLT(fs[Len(fs)], m) THEN fs[Len(fs)] ELSE m

RECURSIVE SumInts(_)
SumInts(ts) == IF ts = <<>> THEN 0 ELSE ParseInt(Head(ts)) + SumInts(Tail(ts))

\* the result of the try body once subprocess.run has returned
ParseOutput(output, elapsed) ==
    LET balance_scores == FindAll("Balance", output)
        hotspot_matches == FindAll("Hotspot", output)
        suspicious == FindAll("Suspicious", output)
        blocked == FindAll("Blocked", output)
        min_balance ==
            IF balance_scores # <<>>
            THEN MinFloat([k \in 1..Len(balance_scores) |-> ParseFloat(balance_scores[k])])
            ELSE FloatOf(0)
        has_hotspot == \E k \in 1..Len(hotspot_matches) : hotspot_matches[k] = LitYES
    IN  BenchResult("", min_balance, has_hotspot, SumInts(suspicious),
                    SumInts(blocked), elapsed, output, TRUE, None)

\* faulty variant of run_benchmark: a timed-out run reports the timeout in seconds
run_benchmark_seconds(proc, timeout) ==
    CASE proc.kind = "exit" ->
            LET output == proc.stdout \o proc.stderr
                bs == FindAll("Balance", output)
            IN  IF \E k \in 1..Len(bs) : ~FloatValid(bs[k])
                THEN BenchResult("", FloatOf(0), FALSE, 0, 0, 0, <<>>, FALSE,
                                 <<"could not convert string to float">>)
                ELSE ParseOutput(output, proc.elapsed)
      [] proc.kind = "TimeoutExpired" ->
            BenchResult("", FloatOf(0), FALSE, 0, 0, timeout, <<>>, FALSE,
                        <<"Benchmark timeout">>)
      [] OTHER ->
            BenchResult("", FloatOf(0), FALSE, 0, 0, 0, <<>>, FALSE, <<proc.message>>)

run_benchmark(proc, timeout) ==
    CASE proc.kind = "exit" ->
            LET output == proc.stdout \o proc.stderr
                bs == FindAll("Balance", output)
            IN  IF \E k \in 1..Len(bs) : ~FloatValid(bs[k])
                \* float() raised ValueError inside the try: except Exception
                THEN BenchResult("", FloatOf(0), FALSE, 0, 0, 0, <<>>, FALSE,
                                 <<"could not convert string to float">>)
                ELSE ParseOutput(output, proc.elapsed)
      [] proc.kind = "TimeoutExpired" ->
            BenchResult("", FloatOf(0), FALSE, 0, 0, timeout * 1000, <<>>, FALSE,
                        <<"Benchmark timeout">>)
      [] OTHER ->
            BenchResult("", FloatOf(0), FALSE, 0, 0, 0, <<>>, FALSE, <<proc.message>>)

(***************************************************************************)
(* evaluate_result                                                         *)
(***************************************************************************)
PassThreshold == 50
WarnThreshold == 20

\* faulty variant of evaluate_result: a score of exactly 50 does not pass
evaluate_result_strict(result) ==
    IF ~result.success THEN "ERROR"
    ELSE IF ~FloatLE(result.balance_score, FloatOf(PassThreshold)) THEN "PASS"
    ELSE IF FloatGE(result.balance_score, WarnThreshold) THEN "WARN"
    ELSE "FAIL"

evaluate_result(result) ==
    IF ~result.success THEN "ERROR"
    ELSE IF FloatGE(result.balance_score, PassThreshold) THEN "PASS"
    ELSE IF FloatGE(result.balance_score, WarnThreshold) THEN "WARN"
    ELSE "FAIL"

(***************************************************************************)
(* main(): the state of one invocation.                                    *)
(***************************************************************************)
VARIABLES
    args,           \* parsed command line: list, compilers, runs, timeout
    source_exists,  \* source_file.exists()
    path,           \* the executables the host's search path resolves
    pc,             \* position in main()
    compiler_keys,  \* the resolved key list
    idx,            \* position of `for key in compiler_keys` (1-based)
    run_num,        \* position of `for run_num in range(args.runs)`
    run_results,    \* the current profile's measurements
    all_results,    \* the results handed to the report
    ret,            \* main()'s return value, the exit status; NoRet before
    calls,          \* the subprocess.run and all_results.append calls so far
    probe           \* input and output of a function applied on its own

vars == <<args, source_exists, path, pc, compiler_keys, idx, run_num,
          run_results, all_results, ret, calls, probe>>

\* main() has not returned: no exit status yet
NoRet == 0 - 1
Idle == [kind |-> "idle"]

\* one comma-separated part of --compilers: a key with or without blanks around it
Item(pad, key) == [pad |-> pad, key |-> key]

\* str.strip() of one part
Strip(item) == item.key

\* the truth value of the option string: None and "" are false
Truthy(compilers) ==
    /\ compilers.given
    /\ compilers.items # <<Item(FALSE, "")>>

(***************************************************************************)
(* Inputs of the model.                                                    *)
(***************************************************************************)
SeqsUpTo(S, n) == UNION {[1..k -> S] : k \in 0..n}

\* the --compilers values tried: absent, "", and lists with known, padded,
\* repeated, unknown and empty parts
CompilerArgs ==
    {[given |-> FALSE, items |-> <<>>]} \cup
    {[given |-> TRUE, items |-> l] : l \in
        {<<Item(FALSE, "")>>,
         <<Item(FALSE, "gcc-O3")>>,
         <<Item(FALSE, "bogus")>>,
         <<Item(FALSE, "gcc-O3"), Item(TRUE, "icpx")>>,
         <<Item(TRUE, "icpx"), Item(FALSE, "icpx")>>,
         <<Item(FALSE, "gcc-O3"), Item(FALSE, "bogus")>>,
         <<Item(FALSE, "clang"), Item(FALSE, "")>>}}

\* the search paths tried
Hosts == {{}, {"g++"}, {"icx"}, {"clang++"}, {"icpx", "icx", "clang++"}}

RunsPool == (0 - 1)..MaxRuns

TimeoutPool == {120}

Line(label, sep, text, tail) == label \o sep \o text \o tail \o NL

BalancePass == Line(LitBalance, <<" ">>, <<"7", "3", ".", "2">>, <<"%">>)
BalanceWarn == Line(LitBalance, <<" ">>, <<"3", "5">>, <<"%">>)
BalanceFail == Line(LitBalance, <<" ", " ">>, <<"1", "5", ".", "0">>, <<"%">>)
BalanceOver == Line(LitBalance, <<"\t">>, <<"1", "5", "0", ".", "0">>, <<"%">>)
BalanceBad == Line(LitBalance, <<" ">>, <<"1", ".", "2", ".", "3">>, <<"%">>)
BalanceNeg == Line(LitBalance, <<" ">>, <<"-", "5", ".", "0">>, <<"%">>)
HotspotYes == Line(LitHotspot, <<" ">>, LitYES, <<>>)
HotspotNo == Line(LitHotspot, <<" ">>, LitNo, <<>>)
SuspiciousLine == Line(LitSuspicious, <<" ">>, <<"4">>, <<>>)
BlockedLine == Line(LitBlocked, <<" ">>, <<"1", "2">>, <<" ", "r", "e", "q">>)

LinePool == {BalancePass, BalanceWarn, BalanceFail, BalanceOver, BalanceBad,
             BalanceNeg, HotspotYes, HotspotNo, SuspiciousLine, BlockedLine}

RECURSIVE Concat(_)
Concat(ls) == IF ls = <<>> THEN <<>> ELSE Head(ls) \o Concat(Tail(ls))

\* the texts of at most MaxLines lines
Outputs == {Concat(ls) : ls \in SeqsUpTo(LinePool, MaxLines)}

\* what a compile can do on a host: without the executable on the search
\* path subprocess.run raises FileNotFoundError
CompileProcs(executable) ==
    IF executable \notin path
    THEN {[kind |-> "FileNotFoundError"]}
    ELSE {[kind |-> "exit", returncode |-> 0, stderr |-> ""],
          [kind |-> "exit", returncode |-> 1, stderr |-> "error: diag"],
          [kind |-> "TimeoutExpired"],
          [kind |-> "FileNotFoundError"],
          [kind |-> "Exception", message |-> "Permission denied"]}

\* what a run of the binary can do in main()
BattleProcs ==
    {[kind |-> "exit", returncode |-> 0, stdout |-> o, stderr |-> <<>>,
      elapsed |-> 7] :
        o \in {<<>>, BalancePass, BalanceWarn \o BalancePass}} \cup
    {[kind |-> "TimeoutExpired", stdout |-> BalancePass, stderr |-> <<>>],
     [kind |-> "Exception", message |-> "Exec format error"]}

\* the inputs run_benchmark is applied to on its own
ProbeProcs ==
    {[kind |-> "exit", returncode |-> rc, stdout |-> o, stderr |-> e,
      elapsed |-> ms] :
        rc \in {0, 139}, o \in Outputs, e \in {<<>>, SuspiciousLine},
        ms \in {0, 7}} \cup
    {[kind |-> "TimeoutExpired", stdout |-> o, stderr |-> <<>>] : o \in Outputs} \cup
    {[kind |-> "Exception", message |-> "Permission denied"]}

ProbeTimeouts == {1, 60, 120}

\* the measurements evaluate_result is applied to on its own
ScorePool == {FloatOf(0), [n |-> 199, d |-> 10], FloatOf(20), [n |-> 4999, d |-> 100],
              FloatOf(50), FloatOf(100), FloatOf(150)}

EvalInputs ==
    {BenchResult("x", sc, FALSE, 0, 0, 0, <<>>, ok, IF ok THEN None ELSE <<"failed">>) :
        sc \in ScorePool, ok \in BOOLEAN}

(***************************************************************************)
(* main(): the steps.                                                      *)
(***************************************************************************)
Init ==
    /\ args \in [list : BOOLEAN, compilers : CompilerArgs, runs : RunsPool,
                 timeout : TimeoutPool]
    /\ source_exists \in BOOLEAN
    /\ path \in Hosts
    /\ pc = "start"
    /\ compiler_keys = <<>>
    /\ idx = 1
    /\ run_num = 0
    /\ run_results = <<>>
    /\ all_results = <<>>
    /\ ret = NoRet
    /\ calls = <<>>
    /\ probe = Idle

Return(site, status) ==
    /\ pc' = site
    /\ ret' = status
    /\ UNCHANGED <<args, source_exists, path, compiler_keys, idx, run_num,
                   run_results, all_results, calls, probe>>

\* --list: print the catalog and return 0
ListConfigs ==
    /\ pc = "start"
    /\ args.list
    /\ Return("return_351", 0)

\* the workload source is missing
SourceMissing ==
    /\ pc = "start"
    /\ ~args.list
    /\ ~source_exists
    /\ Return("return_358", 1)

\* [c.strip() for c in args.compilers.split(",")]
SuppliedKeys == [k \in 1..Len(args.compilers.items) |-> Strip(args.compilers.items[k])]

\* faulty variant of HasUnknownKey: only the first supplied key is validated
HasUnknownKey_first_only(keys) == keys[1] \notin KnownKeys

\* the validation loop: whether some supplied key is not in COMPILER_CONFIGS
HasUnknownKey(keys) == \E k \in 1..Len(keys) : keys[k] \notin KnownKeys

UnknownKey ==
    /\ pc = "start"
    /\ ~args.list
    /\ source_exists
    /\ Truthy(args.compilers)
    /\ HasUnknownKey(SuppliedKeys)
    /\ Return("return_371", 1)

Resolved(keys) ==
    /\ pc' = "compile"
    /\ compiler_keys' = keys
    /\ idx' = 1
    /\ all_results' = <<>>
    /\ UNCHANGED <<args, source_exists, path, run_num, run_results, ret, calls, probe>>

ExplicitKeys ==
    /\ pc = "start"
    /\ ~args.list
    /\ source_exists
    /\ Truthy(args.compilers)
    /\ ~HasUnknownKey(SuppliedKeys)
    /\ Resolved(SuppliedKeys)

InSeq(x, seq) == \E k \in 1..Len(seq) : seq[k] = x

\* the auto-detected key list
AutoKeys ==
    LET available == find_available_compilers(path)
        gcc == FilterIn(<<"gcc-O3", "gcc-O2", "gcc-O3-no-licm">>,
                        {key \in KnownKeys : InSeq(key, available)})
    IN  gcc \o (IF InSeq("icpx", available) THEN <<"icpx">>
                ELSE IF InSeq("icx", available) THEN <<"icx">>
                ELSE <<>>)

NoCompiler ==
    /\ pc = "start"
    /\ ~args.list
    /\ source_exists
    /\ ~Truthy(args.compilers)
    /\ AutoKeys = <<>>
    /\ Return("return_386", 1)

AutoDetect ==
    /\ pc = "start"
    /\ ~args.list
    /\ source_exists
    /\ ~Truthy(args.compilers)
    /\ AutoKeys # <<>>
    /\ Resolved(AutoKeys)

\* one entry of `calls`: a compile (with what the compiler process did and
\* whether compile_benchmark reported success), a run, or an append
NoProc == [kind |-> "none"]
Call(op, i, ok, proc) == [op |-> op, idx |-> i, ok |-> ok, proc |-> proc]

\* faulty variant of BuildError: the result of a failed build is not marked failed
BuildError_marked_success(config, msg) ==
    BenchResult(config.name, FloatOf(0), FALSE, 0, 0, 0, <<>>, TRUE, msg)

\* the result recorded for a failed build
BuildError(config, msg) ==
    BenchResult(config.name, FloatOf(0), FALSE, 0, 0, 0, <<>>, FALSE, msg)

\* head of `for key in compiler_keys`: the build fails
BuildFailed ==
    /\ pc = "compile"
    /\ idx <= Len(compiler_keys)
    /\ LET config == COMPILER_CONFIGS[compiler_keys[idx]]
       IN  \E proc \in CompileProcs(config.executable) :
              LET r == compile_benchmark(config, proc)
              IN  /\ ~r[1]
                  /\ all_results' = Append(all_results, BuildError(config, r[2]))
                  /\ calls' = calls \o <<Call("compile", idx, FALSE, proc),
                                         Call("append", idx, TRUE, NoProc)>>
    /\ idx' = idx + 1
    /\ UNCHANGED <<args, source_exists, path, pc, compiler_keys, run_num,
                   run_results, ret, probe>>

\* head of `for key in compiler_keys`: the build succeeds
BuildSucceeded ==
    /\ pc = "compile"
    /\ idx <= Len(compiler_keys)
    /\ LET config == COMPILER_CONFIGS[compiler_keys[idx]]
       IN  \E proc \in CompileProcs(config.executable) :
              /\ compile_benchmark(config, proc)[1]
              /\ calls' = Append(calls, Call("compile", idx, TRUE, proc))
    /\ run_results' = <<>>
    /\ run_num' = 0
    /\ pc' = "run"
    /\ UNCHANGED <<args, source_exists, path, compiler_keys, idx, all_results,
                   ret, probe>>

\* faulty variant of RunBenchmark: a failed run ends the batch
RunBenchmark_stop_on_failure ==
    /\ pc = "run"
    /\ run_num < args.runs
    /\ \E proc \in BattleProcs :
          LET result == [run_benchmark(proc, args.timeout) EXCEPT
                            !.compiler = COMPILER_CONFIGS[compiler_keys[idx]].name]
          IN  /\ run_results' = Append(run_results, result)
              /\ run_num' = IF result.success THEN run_num + 1 ELSE args.runs
    /\ calls' = Append(calls, Call("run", idx, TRUE, NoProc))
    /\ UNCHANGED <<args, source_exists, path, pc, compiler_keys, idx,
                   all_results, ret, probe>>

\* one iteration of `for run_num in range(args.runs)`
RunBenchmark ==
    /\ pc = "run"
    /\ run_num < args.runs
    /\ \E proc \in BattleProcs :
          LET result == [run_benchmark(proc, args.timeout) EXCEPT
                            !.compiler = COMPILER_CONFIGS[compiler_keys[idx]].name]
          IN  run_results' = Append(run_results, result)
    /\ calls' = Append(calls, Call("run", idx, TRUE, NoProc))
    /\ run_num' = run_num + 1
    /\ UNCHANGED <<args, source_exists, path, pc, compiler_keys, idx,
                   all_results, ret, probe>>

\* faulty variant of KeyLT: the key is the stored score, without the sentinel
KeyLT_stored_score(a, b) == FloatLT(a.balance_score, b.balance_score)

\* the key of min(): balance_score if success else float('inf')
KeyLT(a, b) ==
    /\ a.success
    /\ ~b.success \/ FloatLT(a.balance_score, b.balance_score)

\* min(run_results, key=...): the first element with the smallest key
RECURSIVE Worst(_)
Worst(rs) ==
    IF Len(rs) = 1 THEN rs[1]
    ELSE LET m == Worst(SubSeq(rs, 1, Len(rs) - 1))
         IN  IF KeyLT(rs[Len(rs)], m) THEN rs[Len(rs)] ELSE m

\* faulty variant of Records: a representative is recorded for several runs only
Records_several(rs) == Len(rs) > 1

\* whether the batch's representative is recorded: `if run_results:`
Records(rs) == rs # <<>>

\* the runs are over: record the worst one and go to the next key
Aggregate ==
    /\ pc = "run"
    /\ run_num >= args.runs
    /\ IF Records(run_results)
       THEN /\ all_results' = Append(all_results, Worst(run_results))
            /\ calls' = Append(calls, Call("append", idx, TRUE, NoProc))
       ELSE UNCHANGED <<all_results, calls>>
    /\ idx' = idx + 1
    /\ pc' = "compile"
    /\ UNCHANGED <<args, source_exists, path, compiler_keys, run_num,
                   run_results, ret, probe>>

\* faulty variant of has_failures: an ERROR verdict counts as a failure too
has_failures_or_errors(results) ==
    \E k \in 1..Len(results) : evaluate_result(results[k]) \in {"FAIL", "ERROR"}

\* any(evaluate_result(r) == "FAIL" for r in all_results)
has_failures(results) ==
    \E k \in 1..Len(results) : evaluate_result(results[k]) = "FAIL"

\* the key loop is over: report and return the exit status
Report ==
    /\ pc = "compile"
    /\ idx > Len(compiler_keys)
    /\ Return("return_455", IF has_failures(all_results) THEN 1 ELSE 0)

Next ==
    \/ ListConfigs
    \/ SourceMissing
    \/ UnknownKey
    \/ ExplicitKeys
    \/ NoCompiler
    \/ AutoDetect
    \/ BuildFailed
    \/ BuildSucceeded
    \/ RunBenchmark
    \/ Aggregate
    \/ Report

Spec == Init /\ [][Next]_vars

(***************************************************************************)
(* run_benchmark and evaluate_result applied on their own.                 *)
(***************************************************************************)
ProbeInit ==
    /\ probe \in
          {[kind |-> "run", proc |-> p, timeout |-> t] :
              p \in ProbeProcs, t \in ProbeTimeouts} \cup
          {[kind |-> "evaluate", a |-> a, b |-> b] : a \in EvalInputs, b \in EvalInputs}
    /\ args = [list |-> FALSE, compilers |-> [given |-> FALSE, items |-> <<>>],
               runs |-> 1, timeout |-> 120]
    /\ source_exists = TRUE
    /\ path = {}
    /\ pc = "probe"
    /\ compiler_keys = <<>>
    /\ idx = 1
    /\ run_num = 0
    /\ run_results = <<>>
    /\ all_results = <<>>
    /\ ret = NoRet
    /\ calls = <<>>

ProbeRun ==
    /\ probe.kind = "run"
    /\ LET result == run_benchmark(probe.proc, probe.timeout)
       IN  probe' = [kind |-> "ran", proc |-> probe.proc, timeout |-> probe.timeout,
                     result |-> result, verdict |-> evaluate_result(result)]
    /\ UNCHANGED <<args, source_exists, path, pc, compiler_keys, idx, run_num,
                   run_results, all_results, ret, calls>>

ProbeEvaluate ==
    /\ probe.kind = "evaluate"
    /\ probe' = [kind |-> "evaluated", a |-> probe.a, b |-> probe.b,
                 va |-> evaluate_result(probe.a), vb |-> evaluate_result(probe.b)]
    /\ UNCHANGED <<args, source_exists, path, pc, compiler_keys, idx, run_num,
                   run_results, all_results, ret, calls>>

ProbeNext == ProbeRun \/ ProbeEvaluate

ProbeSpec == ProbeInit /\ [][ProbeNext]_vars

(***************************************************************************)
(* Properties.                                                             *)
(***************************************************************************)
Finished == pc = "return_455"

\* the fatal preconditions, read off the inputs of the invocation
SourceIsMissing == ~args.list /\ ~source_exists
UnknownKeySupplied ==
    /\ ~args.list
    /\ args.compilers.given
    /\ args.compilers.items # <<Item(FALSE, "")>>
    /\ \E k \in 1..Len(args.compilers.items) :
          args.compilers.items[k].key \notin KnownKeys
NothingDetected ==
    /\ ~args.list
    /\ ~(args.compilers.given /\ args.compilers.items # <<Item(FALSE, "")>>)
    /\ \A key \in {"gcc-O3", "gcc-O2", "gcc-O3-no-licm", "icpx", "icx"} :
          COMPILER_CONFIGS[key].executable \notin path
FatalPrecondition == SourceIsMissing \/ UnknownKeySupplied \/ NothingDetected

SomeFail == \E k \in 1..Len(all_results) : evaluate_result(all_results[k]) = "FAIL"

\* C1 as stated: the exit status is 1 if and only if the final result
\* sequence contains a result whose verdict is FAIL
C1_ExitOneIffFail == ret # NoRet => (ret = 1 <=> SomeFail)

\* C1 amended: the exit status is 1 if and only if a fatal precondition
\* failed (missing source, unknown supplied key, nothing auto-detected) or the
\* final result sequence contains a result whose verdict is FAIL; otherwise 0
C1_ExitStatus ==
    ret # NoRet =>
        /\ ret \in {0, 1}
        /\ ret = 1 <=> (FatalPrecondition \/ SomeFail)

\* a completed battle of two profiles that exits 1 because of a FAIL verdict
\* next to a profile that did not fail
C1_Witness ==
    /\ Finished
    /\ ret = 1
    /\ Len(all_results) = 2
    /\ evaluate_result(all_results[1]) = "PASS"
    /\ evaluate_result(all_results[2]) = "FAIL"

\* the state right after Aggregate recorded the representative of a batch
JustAggregated ==
    /\ Len(calls) >= 2
    /\ calls[Len(calls)].op = "append"
    /\ calls[Len(calls) - 1].op = "run"

Representative == all_results[Len(all_results)]

\* C2: the representative of a batch with a successful run is a successful
\* run of the batch whose score is the minimum over the successful runs; it
\* is a failed run (verdict ERROR) only when every run of the batch failed
C2_WorstOfN ==
    JustAggregated =>
        /\ \E k \in 1..Len(run_results) : run_results[k] = Representative
        /\ IF \E k \in 1..Len(run_results) : run_results[k].success
           THEN /\ Representative.success
                /\ \A k \in 1..Len(run_results) :
                      run_results[k].success =>
                          Representative.balance_score.n * run_results[k].balance_score.d
                              <= run_results[k].balance_score.n * Representative.balance_score.d
           ELSE /\ ~Representative.success
                /\ evaluate_result(Representative) = "ERROR"

\* a batch whose first run failed (stored score 0) and whose representative
\* is a later, successful run with a score above 0
C2_Witness ==
    /\ JustAggregated
    /\ Len(run_results) >= 2
    /\ ~run_results[1].success
    /\ run_results[1].balance_score.n = 0
    /\ Representative.success
    /\ Representative.balance_score.n > 0

\* C3: a fatal precondition failure returns 1 without any compile or run
C3_FatalBeforeAnyCall ==
    FatalPrecondition =>
        /\ calls = <<>>
        /\ pc # "start" => (ret = 1 /\ pc \in {"return_358", "return_371", "return_386"})

\* an unknown key after a valid one: main() has returned 1 with no call made
C3_Witness ==
    /\ ret = 1
    /\ source_exists
    /\ Len(args.compilers.items) = 2
    /\ args.compilers.items[1].key \in KnownKeys
    /\ args.compilers.items[2].key \notin KnownKeys
    /\ calls = <<>>

\* the positions of `calls` that hold a call `op` of profile entry i
CallsOf(op, i) == {p \in 1..Len(calls) : calls[p].op = op /\ calls[p].idx = i}

\* the number of results appended up to position p of `calls`
AppendsUpTo(p) == Cardinality({q \in 1..p : calls[q].op = "append"})

\* C4: a failed build (non-zero exit, timeout, compiler not found, other
\* error) records at once a result with success=false, verdict ERROR and the
\* diagnostic, the profile is never run, and every remaining profile of the
\* list is still compiled
C4_BuildFailure ==
    /\ \A p \in 1..Len(calls) :
          (calls[p].op = "compile" /\ calls[p].proc # [kind |-> "exit", returncode |-> 0, stderr |-> ""]) =>
              LET i == calls[p].idx
                  config == COMPILER_CONFIGS[compiler_keys[i]]
                  r == all_results[AppendsUpTo(p + 1)]
              IN  /\ ~calls[p].ok
                  /\ p < Len(calls)
                  /\ calls[p + 1].op = "append" /\ calls[p + 1].idx = i
                  /\ CallsOf("run", i) = {}
                  /\ ~r.success
                  /\ evaluate_result(r) = "ERROR"
                  /\ r.compiler = config.name
                  /\ r.error # None
                  /\ r.error = compile_benchmark(config, calls[p].proc)[2]
                  /\ calls[p].proc.kind = "exit" => r.error[2] = calls[p].proc.stderr
                  /\ p + 1 = Len(calls) => (Finished \/ (pc = "compile" /\ idx = i + 1))
    /\ Finished => \A i \in 1..Len(compiler_keys) : CallsOf("compile", i) # {}

\* a finished battle whose first build failed with a non-zero exit and whose
\* second profile was then built and run
C4_Witness ==
    /\ Finished
    /\ Len(compiler_keys) >= 2
    /\ \E p \in CallsOf("compile", 1) :
          calls[p].proc.kind = "exit" /\ calls[p].proc.returncode # 0
    /\ CallsOf("run", 2) # {}

\* the entries of the key list that contribute a result under the amended C9
Contributes(i) ==
    \/ \E p \in CallsOf("compile", i) : ~calls[p].ok
    \/ args.runs >= 1

RECURSIVE Contributors(_)
Contributors(n) ==
    IF n = 0 THEN <<>>
    ELSE Contributors(n - 1) \o (IF Contributes(n) THEN <<n>> ELSE <<>>)

\* every append follows either the failed compile of its entry or the
\* completed runs (args.runs of them) of its entry
AppendOnlyWhenDue ==
    \A p \in 1..Len(calls) :
        calls[p].op = "append" =>
            \/ /\ p > 1
               /\ calls[p - 1].op = "compile"
               /\ calls[p - 1].idx = calls[p].idx
               /\ ~calls[p - 1].ok
            \/ /\ args.runs >= 1
               /\ p > args.runs + 1
               /\ \A q \in (p - args.runs)..(p - 1) :
                     calls[q].op = "run" /\ calls[q].idx = calls[p].idx
               /\ calls[p - args.runs - 1].op = "compile"
               /\ calls[p - args.runs - 1].idx = calls[p].idx
               /\ calls[p - args.runs - 1].ok

\* C9 as stated: after orchestration the result sequence holds exactly one
\* result per entry of the key list, in processing order, for every --runs
C9_OneResultPerEntry ==
    /\ AppendOnlyWhenDue
    /\ Finished =>
          /\ Len(all_results) = Len(compiler_keys)
          /\ \A i \in 1..Len(compiler_keys) :
                all_results[i].compiler = COMPILER_CONFIGS[compiler_keys[i]].name

\* C9 amended: the result sequence holds, in processing order, exactly one
\* result for every entry whose build failed and, when --runs >= 1, for every
\* entry whose build succeeded; with --runs <= 0 an entry whose build
\* succeeded contributes no result.  A result is appended only after the
\* build failed or all runs completed.
C9_ResultsPerEntry ==
    /\ AppendOnlyWhenDue
    /\ Finished =>
          LET who == Contributors(Len(compiler_keys))
          IN  /\ Len(all_results) = Len(who)
              /\ \A j \in 1..Len(who) :
                    /\ all_results[j].compiler = COMPILER_CONFIGS[compiler_keys[who[j]]].name
                    /\ all_results[j].success => \E p \in CallsOf("compile", who[j]) : calls[p].ok
              /\ args.runs >= 1 => Len(all_results) = Len(compiler_keys)

\* a finished battle of two different profiles, two runs each, the first
\* built and run, the second failing to build: two results in that order
C9_Witness ==
    /\ Finished
    /\ args.runs = 2
    /\ Len(compiler_keys) = 2
    /\ compiler_keys[1] # compiler_keys[2]
    /\ Len(all_results) = 2
    /\ all_results[1].success
    /\ ~all_results[2].success
    /\ CallsOf("run", 2) = {}

Max(a, b) == IF a >= b THEN a ELSE b

\* the calls are made profile by profile, and a run of a profile starts only
\* after the result of every earlier profile that was run has been recorded
Sequential ==
    /\ \A p, q \in 1..Len(calls) : p < q => calls[p].idx <= calls[q].idx
    /\ \A q \in 1..Len(calls) :
          calls[q].op = "run" =>
              \A i \in 1..(calls[q].idx - 1) :
                  \E p \in 1..(q - 1) : calls[p].op = "append" /\ calls[p].idx = i
    /\ pc = "run" => (Len(run_results) = run_num /\ Cardinality(CallsOf("run", idx)) = run_num)

\* what C10 says of a profile entry whose processing is over, with n the
\* number of runs of a built profile
Processed(i, n) ==
    /\ Cardinality(CallsOf("compile", i)) = 1
    /\ \A p \in CallsOf("compile", i) :
          Cardinality(CallsOf("run", i)) = (IF calls[p].ok THEN n ELSE 0)

\* C10 as stated: each entry is compiled exactly once and, when built, run
\* exactly `runs` times, sequentially
C10_ExactlyRuns ==
    /\ Sequential
    /\ \A i \in 1..Len(compiler_keys) : i < idx => Processed(i, args.runs)
    /\ JustAggregated => Len(run_results) = args.runs

\* C10 amended: each entry is compiled exactly once and, when built, run
\* exactly max(runs, 0) times (a negative --runs runs nothing), sequentially
\* against the same artifact, a failed or timed-out run neither ending the
\* batch nor being repeated, and no run of a later profile starting before
\* the current profile's result was recorded
C10_CompileOnceRunN ==
    /\ Sequential
    /\ \A i \in 1..Len(compiler_keys) : i < idx => Processed(i, Max(args.runs, 0))
    /\ JustAggregated => Len(run_results) = Max(args.runs, 0)

\* a finished battle of two profiles, each built once and run twice, in which
\* the first run of the last batch failed and its second run was still made
C10_Witness ==
    /\ Finished
    /\ args.runs = 2
    /\ Len(compiler_keys) = 2
    /\ Cardinality(CallsOf("run", 1)) = 2
    /\ Cardinality(CallsOf("run", 2)) = 2
    /\ ~run_results[1].success
    /\ run_results[2].success
    /\ all_results[2] = run_results[2]

Rank(verdict) == CASE verdict = "FAIL" -> 0 [] verdict = "WARN" -> 1 [] verdict = "PASS" -> 2

\* the verdict C5 gives a measurement
Policy(m) ==
    IF ~m.success THEN "ERROR"
    ELSE IF m.balance_score.n >= 50 * m.balance_score.d THEN "PASS"
    ELSE IF m.balance_score.n >= 20 * m.balance_score.d THEN "WARN"
    ELSE "FAIL"

\* C5: evaluate_result returns ERROR for success=false whatever the score,
\* and PASS / WARN / FAIL for success=true by the thresholds 50 and 20; so on
\* the success branch a greater score never gets a worse verdict
C5_Classify ==
    /\ probe.kind = "evaluated" =>
          /\ probe.va = Policy(probe.a)
          /\ probe.vb = Policy(probe.b)
          /\ ~probe.a.success => probe.va = "ERROR"
          /\ (probe.a.success /\ probe.b.success
                /\ FloatLT(probe.b.balance_score, probe.a.balance_score)) =>
                    Rank(probe.va) >= Rank(probe.vb)
    /\ probe.kind = "ran" => probe.verdict = Policy(probe.result)

\* two successful measurements on either side of both thresholds, and a
\* failed one with a passing score
C5_Witness ==
    /\ probe.kind = "evaluated"
    /\ probe.a.success /\ probe.b.success
    /\ FloatEq(probe.a.balance_score, FloatOf(50)) /\ probe.va = "PASS"
    /\ FloatLT(probe.b.balance_score, FloatOf(20)) /\ probe.vb = "FAIL"

Ran == probe.kind = "ran"

\* the text run_benchmark parses: result.stdout + result.stderr
Captured == probe.proc.stdout \o probe.proc.stderr

\* whether the decimal text t reads as a value of at most 100, decided on
\* the characters: at most two digits before the point, or "100" and zeros
AtMost100(t) ==
    LET p == RunEnd(t, 1, Digit)
    IN  \/ p <= 3
        \/ /\ SubSeq(t, 1, p - 1) = <<"1", "0", "0">>
           /\ \A k \in p..Len(t) : t[k] \in {".", "0"}

\* C6 as stated: a successful measurement has a score between 0 and 100
C6_ScoreInRange ==
    (Ran /\ probe.result.success) =>
        /\ 0 <= probe.result.balance_score.n
        /\ probe.result.balance_score.n <= 100 * probe.result.balance_score.d

\* C6 amended: a successful measurement has a score of at least 0, and of
\* at most 100 whenever every Balance value of the output is at most 100 (a
\* greater value is not clamped)
C6_ScoreBounds ==
    (Ran /\ probe.result.success) =>
        /\ 0 <= probe.result.balance_score.n
        /\ probe.result.balance_score.d > 0
        /\ (\A k \in 1..Len(FindAll("Balance", Captured)) :
                AtMost100(FindAll("Balance", Captured)[k]))
              => probe.result.balance_score.n <= 100 * probe.result.balance_score.d

\* a successful measurement of an output with two Balance values, both at
\* most 100, whose score is above 0
C6_Witness ==
    /\ Ran
    /\ probe.result.success
    /\ Len(FindAll("Balance", Captured)) = 2
    /\ \A k \in 1..2 : AtMost100(FindAll("Balance", Captured)[k])
    /\ probe.result.balance_score.n > 0

\* the Balance values of a text that are numbers
ValidBalances(text) ==
    LET ts == FindAll("Balance", text)
    IN  {ParseFloat(ts[k]) : k \in {j \in 1..Len(ts) : FloatValid(ts[j])}}

\* what C7 says of the measurement of a run that completed
Extracted(result, text) ==
    /\ result.success
    /\ result.raw_output = text
    /\ IF ValidBalances(text) = {}
       THEN result.balance_score.n = 0
       ELSE /\ \E v \in ValidBalances(text) : FloatEq(result.balance_score, v)
            /\ \A v \in ValidBalances(text) : FloatLE(result.balance_score, v)
    /\ result.hotspot_detected <=>
          \E k \in 1..Len(FindAll("Hotspot", text)) : FindAll("Hotspot", text)[k] = LitYES
    /\ result.suspicious_patterns = SumInts(FindAll("Suspicious", text))
    /\ result.blocked_redirects = SumInts(FindAll("Blocked", text))
    /\ (\A pat \in {"Balance", "Hotspot", "Suspicious", "Blocked"} :
            FindAll(pat, text) = <<>>)
          => /\ result.balance_score.n = 0
             /\ ~result.hotspot_detected
             /\ result.suspicious_patterns = 0
             /\ result.blocked_redirects = 0
             /\ evaluate_result(result) = "FAIL"

\* C7: the measurement of a completed run is successful and holds the
\* minimum of the Balance values (0.0 without any), the OR of the Hotspot
\* flags and the sums of the Suspicious and Blocked counts; an output
\* without any recognizable pattern gives (0.0, false, 0, 0) and FAIL
C7_Extraction ==
    (Ran /\ probe.proc.kind = "exit") => Extracted(probe.result, Captured)

\* C7 where it holds: when every text the Balance pattern matches is a
\* number, the measurement is as C7 says
C7_ExtractionOfNumbers ==
    (Ran /\ probe.proc.kind = "exit"
         /\ \A k \in 1..Len(FindAll("Balance", Captured)) :
                FloatValid(FindAll("Balance", Captured)[k]))
        => Extracted(probe.result, Captured)

\* what C8 says of a timed-out run in every version
TimedOut ==
    /\ ~probe.result.success
    /\ probe.result.execution_time_ms = probe.timeout * 1000
    /\ probe.result.error = <<"Benchmark timeout">>
    /\ probe.verdict = "ERROR"

\* C8 as stated: a timed-out run gives a failed measurement with the timeout
\* as elapsed time and a timeout error, whose raw output and metrics are
\* those of the text captured before the process was killed
C8_TimeoutKeepsOutput ==
    (Ran /\ probe.proc.kind = "TimeoutExpired") =>
        /\ TimedOut
        /\ probe.result.raw_output = Captured
        /\ FloatEq(probe.result.balance_score, ParseOutput(Captured, 0).balance_score)

\* C8 amended: a timed-out run gives a failed measurement with
\* execution_time_ms = timeout * 1000 and the error "Benchmark timeout"; the
\* text captured before the process was killed is discarded: the raw output
\* is empty and the metrics are the defaults (0, false, 0, 0)
C8_TimeoutDiscardsOutput ==
    (Ran /\ probe.proc.kind = "TimeoutExpired") =>
        /\ TimedOut
        /\ probe.result.raw_output = <<>>
        /\ probe.result.balance_score.n = 0
        /\ ~probe.result.hotspot_detected
        /\ probe.result.suspicious_patterns = 0
        /\ probe.result.blocked_redirects = 0

\* a run killed at a 60 s timeout after it had printed a Balance line and a
\* Hotspot line
C8_Witness ==
    /\ Ran
    /\ probe.proc.kind = "TimeoutExpired"
    /\ probe.timeout = 60
    /\ FindAll("Balance", Captured) # <<>>
    /\ FindAll("Hotspot", Captured) = <<LitYES>>

====
